---- MODULE Spec2Model ----
(***************************************************************************)
(* collection::Vector<Value> (include/vector.h) as a state machine.        *)
(*                                                                         *)
(* Two Vector<int> objects, "a" and "b", live over one heap of storage     *)
(* blocks.  "a" is default-constructed; "b" is constructed from "a" in an  *)
(* inner scope, used there and destroyed at its end, after which the       *)
(* moved-from "a" is used again:                                           *)
(*     Vector<int> a; ... { Vector<int> b(std::move(a)); ...               *)
(*                          a = std::move(b); } ...                        *)
(* A second specification, GrowthSpec, is the run that only calls          *)
(* pushBack on the fresh vector and counts the relocated elements.         *)
(* Every public member function is an operator from a world record         *)
(* (the members of both vectors plus the heap) to a world record, and one  *)
(* action applies it.  A storage block records the number of slots that    *)
(* were allocated and the contents of its slots; a slot is a Value, RAW    *)
(* (allocated, no object constructed) or GARBAGE (an indeterminate value). *)
(* Memory past the end of a block is modelled too: a write there either    *)
(* lands in memory that reads back later or is lost, the choice being an   *)
(* input of the operation (parameter `stick').                             *)
(***************************************************************************)
EXTENDS Integers, Sequences, FiniteSets, TLC

\* ------------------------------------------------------------------ bounds
\* no vector grows past MaxSize elements through pushBack/insert/resize
MaxSize == 3
\* no reallocation to more than MaxCap slots is explored
MaxCap == 24
\* largest argument of reserve() that is explored
MaxReserve == 4
\* number of pushBack calls of the pushBack-only run
MaxPushes == 128

\* --------------------------------------------------------------- constants
DEFAULT_CAPACITY == 16
\* ValueType{} of Vector<int>
DefaultValue == 0
\* nullptr
NullPtr == 0
\* slot markers (not Values)
RAW == -1
GARBAGE == -2
\* number of block addresses: one per vector and one for the block that
\* resizeToBigger allocates before it releases the old one
NumBlocks == 3

Vecs == {"a", "b"}
Value == {0, 1}
Blocks == 1..NumBlocks
Overloads == {"copy", "move"}

VARIABLES live, array_, size_, capacity_, heap, crashed, pushes, moved

vars == <<live, array_, size_, capacity_, heap, crashed, pushes, moved>>

Max(x, y) == IF x >= y THEN x ELSE y
Min(x, y) == IF x <= y THEN x ELSE y

\* ------------------------------------------------------------------- heap
FreeBlock == [alloc |-> FALSE, n |-> 0, slots |-> <<>>]

\* n raw slots, as a sequence
RawSlots(n) == SubSeq([k \in 1..n |-> RAW], 1, n)

\* the world record of the current state; `relocated' counts the elements
\* that the operation applied to it moves into a new block, `oom' says that
\* the allocator cannot satisfy a request
Cur ==
    [live |-> live, array_ |-> array_, size_ |-> size_, capacity_ |-> capacity_,
     heap |-> heap, thrown |-> "none", relocated |-> 0, oom |-> FALSE]

\* the current state with an allocator that can (oom = FALSE) or cannot
\* (oom = TRUE) satisfy the next request
CurMemory(oom) == [Cur EXCEPT !.oom = oom]

Throw(w, what) == [w EXCEPT !.thrown = what]

\* Memory::allocate: the address of a fresh block (lowest free address)
NewBlock(w) ==
    CHOOSE id \in Blocks :
        /\ ~w.heap[id].alloc
        /\ \A j \in Blocks : j < id => w.heap[j].alloc

Allocate(w, id, n) ==
    [w EXCEPT !.heap[id] = [alloc |-> TRUE, n |-> n, slots |-> RawSlots(n)]]

\* Memory::deallocate; deallocating nullptr is a no-op
Deallocate(w, p) ==
    IF p = NullPtr THEN w ELSE [w EXCEPT !.heap[p] = FreeBlock]

\* drop the indeterminate tail of the memory past the end of a block
RECURSIVE Trim(_, _)
Trim(slots, n) ==
    IF Len(slots) > n /\ slots[Len(slots)] = GARBAGE
    THEN Trim(SubSeq(slots, 1, Len(slots) - 1), n)
    ELSE slots

\* the value read at slot i of a block: a raw slot and memory the block does
\* not own read as an indeterminate value
BlockRead(blk, i) ==
    IF i >= 0 /\ i < Len(blk.slots)
    THEN (IF blk.slots[i + 1] = RAW THEN GARBAGE ELSE blk.slots[i + 1])
    ELSE GARBAGE

\* store x at slot i of a block; past the end of the block the store lands in
\* readable memory (stick) or is lost
BlockWrite(blk, i, x, stick) ==
    IF i < 0 THEN blk
    ELSE IF i < blk.n THEN [blk EXCEPT !.slots[i + 1] = x]
    ELSE LET y == IF stick /\ x # RAW THEN x ELSE GARBAGE
             m == Max(Len(blk.slots), i + 1)
             ext == [k \in 1..m |->
                        IF k = i + 1 THEN y
                        ELSE IF k <= Len(blk.slots) THEN blk.slots[k]
                        ELSE GARBAGE]
         IN [blk EXCEPT !.slots = Trim(SubSeq(ext, 1, m), blk.n)]

\* *(array_ + i)
Rd(w, c, i) ==
    IF w.array_[c] = NullPtr THEN GARBAGE
    ELSE BlockRead(w.heap[w.array_[c]], i)

\* Memory::construct(allocator_, array_ + i, x)  and  *(array_ + i) = x
Wr(w, c, i, x, stick) ==
    IF w.array_[c] = NullPtr THEN w
    ELSE [w EXCEPT !.heap[w.array_[c]] = BlockWrite(@, i, x, stick)]

\* Memory::destroy(allocator_, array_ + i)
Destroy(w, c, i) == Wr(w, c, i, RAW, FALSE)

RECURSIVE DestroyRange(_, _, _, _)
\* for (i = from; i < to; ++i) Memory::destroy(allocator_, array_ + i)
DestroyRange(w, c, from, to) ==
    IF from >= to THEN w
    ELSE DestroyRange(Destroy(w, c, from), c, from + 1, to)

\* what forward iteration from begin() to end() yields
Elems(w, c) == [k \in 1..w.size_[c] |-> Rd(w, c, k - 1)]

\* ------------------------------------------------------- protected helpers
\* a growth policy of one more slot at a time
increasedCapacityByOne(capacity) == capacity + 1

increasedCapacity(capacity) ==
    IF capacity < 2 THEN 2 ELSE capacity + (capacity \div 2)

RECURSIVE MoveValues(_, _, _, _, _)
\* the relocation loop of resizeToBigger: construct slot i of the new block
\* from slot i of the old one, destroy the old one, for i = from .. size_ - 1
MoveValues(w, c, target, from, stick) ==
    IF from >= w.size_[c] THEN w
    ELSE LET x == Rd(w, c, from)
             w1 == [w EXCEPT !.heap[target] = BlockWrite(@, from, x, stick),
                             !.relocated = @ + 1]
         IN MoveValues(Destroy(w1, c, from), c, target, from + 1, stick)

\* a resizeToBigger that releases the old block before it asks for the new
\* one
resizeToBiggerReleaseFirst(w, c, newCapacity, stick) ==
    IF w.oom
    THEN Throw(Deallocate(DestroyRange(w, c, 0, w.size_[c]), w.array_[c]),
               "bad_alloc")
    ELSE LET newArray == NewBlock(w)
             w1 == Allocate(w, newArray, newCapacity)
             w2 == MoveValues(w1, c, newArray, 0, stick)
             w3 == Deallocate(w2, w2.array_[c])
         IN [w3 EXCEPT !.array_[c] = newArray, !.capacity_[c] = newCapacity]

\* Memory::allocate comes first: when it throws, nothing has been touched
resizeToBigger(w, c, newCapacity, stick) ==
    IF w.oom THEN Throw(w, "bad_alloc")
    ELSE LET newArray == NewBlock(w)
             w1 == Allocate(w, newArray, newCapacity)
             w2 == MoveValues(w1, c, newArray, 0, stick)
             w3 == Deallocate(w2, w2.array_[c])
         IN [w3 EXCEPT !.array_[c] = newArray, !.capacity_[c] = newCapacity]

\* currentCapacity - 1 is computed in size_t: for capacity 0 it is SIZE_MAX,
\* which no size_ equals, exactly as -1 here
requireExtraSlot(w, c, stick) ==
    LET currentCapacity == w.capacity_[c]
    IN IF w.size_[c] = 0 \/ w.size_[c] = currentCapacity - 1
       THEN resizeToBigger(w, c, increasedCapacity(currentCapacity), stick)
       ELSE w

RECURSIVE ShiftRight(_, _, _, _, _)
\* for (; target != bound;) { current = target--; *current = move(*target); }
\* a target that runs below the block never meets bound: the walk is cut at
\* the first slot before the block
ShiftRight(w, c, target, bound, stick) ==
    IF target = bound \/ target < 0 THEN w
    ELSE ShiftRight(Wr(w, c, target, Rd(w, c, target - 1), stick),
                    c, target - 1, bound, stick)

\* uncheckedInsert(Iterator, ConstReference)
uncheckedInsertCopy(w, c, index, value, stick) ==
    LET w1 == requireExtraSlot(w, c, stick)
        oldSize == w1.size_[c]
        w2 == [w1 EXCEPT !.size_[c] = oldSize + 1]
    IN IF w1.thrown # "none" THEN w1
       ELSE IF index = oldSize
       THEN Wr(w2, c, w2.size_[c], value, stick)
       ELSE LET w3 == Wr(w2, c, oldSize, Rd(w2, c, oldSize - 1), stick)
                w4 == ShiftRight(w3, c, oldSize, index, stick)
            IN IF index > oldSize
               THEN Throw(w4, "crash")
               ELSE Wr(Destroy(w4, c, index), c, index, value, stick)

\* uncheckedInsert(ConstIterator, RValueReference)
uncheckedInsertMove(w, c, index, value, stick) ==
    LET w1 == requireExtraSlot(w, c, stick)
        oldSize == w1.size_[c]
        w2 == [w1 EXCEPT !.size_[c] = oldSize + 1]
    IN IF w1.thrown # "none" THEN w1
       ELSE IF index = oldSize
       THEN Wr(w2, c, oldSize, value, stick)
       ELSE LET w3 == Wr(w2, c, oldSize, Rd(w2, c, oldSize - 1), stick)
                w4 == ShiftRight(w3, c, oldSize, index, stick)
            IN IF index > oldSize
               THEN Throw(w4, "crash")
               ELSE Wr(w4, c, index, value, stick)

RECURSIVE EraseLoop(_, _, _, _, _, _)
\* for (source = to, target = from; source != end; ++source)
\*     *target = move(*source);
EraseLoop(w, c, source, target, end, stick) ==
    IF source >= end THEN w
    ELSE EraseLoop(Wr(w, c, target, Rd(w, c, source), stick),
                   c, source + 1, target, end, stick)

uncheckedErase(w, c, from, to, stick) ==
    LET end == w.size_[c]
        w1 == EraseLoop(w, c, to, from, end, stick)
        delta == to - from
        w2 == DestroyRange(w1, c, end - delta, end)
    IN [w2 EXCEPT !.size_[c] = end - delta]

\* ---------------------------------------------------------- constructors
\* Vector() : Vector(DEFAULT_CAPACITY, 0)
DefaultConstruct(w, c) ==
    LET p == NewBlock(w)
        w1 == Allocate(w, p, DEFAULT_CAPACITY)
    IN [w1 EXCEPT !.live[c] = TRUE, !.array_[c] = p, !.size_[c] = 0,
                  !.capacity_[c] = DEFAULT_CAPACITY]

\* Vector(Vector const& original) : Vector(original.size_)
\*     { copyArrayNoChecks(original.array_); }
\* copyArrayNoChecks takes (originalArray, size) and has no overload of one
\* argument: the constructor is ill-formed once it is instantiated, so no
\* build holds a program that copy-constructs and no object c comes to be
CopyConstruct(w, c, original) == Throw(w, "ill_formed")

\* a move constructor that copies the members and leaves the source as it was
MoveConstructShallow(w, c, original) ==
    [w EXCEPT !.live[c] = TRUE,
              !.array_[c] = w.array_[original],
              !.size_[c] = w.size_[original],
              !.capacity_[c] = w.capacity_[original]]

\* Vector(Vector&& original)
MoveConstruct(w, c, original) ==
    [w EXCEPT !.live[c] = TRUE,
              !.array_[c] = w.array_[original], !.array_[original] = NullPtr,
              !.size_[c] = w.size_[original], !.size_[original] = 0,
              !.capacity_[c] = w.capacity_[original],
              !.capacity_[original] = 0]

\* operator=(Vector&& other): three std::swap
MoveAssign(w, c, other) ==
    [w EXCEPT !.array_[c] = w.array_[other], !.array_[other] = w.array_[c],
              !.size_[c] = w.size_[other], !.size_[other] = w.size_[c],
              !.capacity_[c] = w.capacity_[other],
              !.capacity_[other] = w.capacity_[c]]

RECURSIVE copyArrayNoChecks(_, _, _, _, _, _)
\* for (i = from; i < size; ++i)
\*     Memory::construct(allocator_, array_ + i, *(originalArray + i));
copyArrayNoChecks(w, c, originalArray, from, size, stick) ==
    IF from >= size THEN w
    ELSE LET x == IF originalArray = NullPtr THEN GARBAGE
                  ELSE BlockRead(w.heap[originalArray], from)
         IN copyArrayNoChecks(Wr(w, c, from, x, stick), c, originalArray,
                              from + 1, size, stick)

\* the statements that `if (this != *other)' guards in operator=(Vector const&):
\* a smaller target takes a fresh block of other.size_ slots, other's size and
\* other's capacity, the block it had being neither destroyed nor released;
\* then other's elements are constructed over slots 0 .. other.size_ - 1
CopyAssignBody(w, c, other, stick) ==
    LET otherSize == w.size_[other]
        newArray == NewBlock(w)
        w1 == IF w.size_[c] < otherSize
              THEN IF w.oom THEN Throw(w, "bad_alloc")
                   ELSE [Allocate(w, newArray, otherSize) EXCEPT
                            !.array_[c] = newArray,
                            !.size_[c] = otherSize,
                            !.capacity_[c] = w.capacity_[other]]
              ELSE w
    IN IF w1.thrown # "none" THEN w1
       ELSE copyArrayNoChecks(w1, c, w1.array_[other], 0, otherSize, stick)

\* operator=(Vector const& other): its guard `this != *other' applies unary *
\* to a Vector, which has no operator*: the function is ill-formed once it is
\* instantiated, so no build holds a program that copy-assigns and the
\* guarded statements never run
CopyAssign(w, c, other, stick) == Throw(w, "ill_formed")

\* ~Vector()
Destruct(w, c) ==
    LET w1 == DestroyRange(w, c, 0, w.size_[c])
        w2 == Deallocate(w1, w1.array_[c])
    IN [w2 EXCEPT !.live[c] = FALSE, !.array_[c] = NullPtr, !.size_[c] = 0,
                  !.capacity_[c] = 0]

\* ---------------------------------------------------------- indexed access
\* an at() without checkRange(): operator[]
atUnchecked(w, c, index) == [after |-> w, result |-> Rd(w, c, index)]

\* at(size_t index): checkRange(index), then array_[index]; `after' is the
\* world the call leaves, `result' the value of the returned reference
at(w, c, index) ==
    IF index >= w.size_[c]
    THEN [after |-> Throw(w, "out_of_range"), result |-> GARBAGE]
    ELSE [after |-> w, result |-> Rd(w, c, index)]

\* ------------------------------------------------------------- modifiers
reserve(w, c, newCapacity, stick) ==
    IF w.capacity_[c] < newCapacity
    THEN resizeToBigger(w, c, newCapacity, stick)
    ELSE w

RECURSIVE ConstructRange(_, _, _, _, _, _)
\* for (i = from; i < to; ++i) Memory::construct(allocator_, array_ + i, value)
ConstructRange(w, c, from, to, value, stick) ==
    IF from >= to THEN w
    ELSE ConstructRange(Wr(w, c, from, value, stick), c, from + 1, to, value, stick)

\* resize(size_t newSize, ConstReference value)
resize(w, c, newSize, value, stick) ==
    LET currentSize == w.size_[c]
    IN IF newSize < currentSize
       THEN [DestroyRange(w, c, newSize, currentSize) EXCEPT !.size_[c] = newSize]
       ELSE IF newSize > currentSize
       THEN LET w1 == IF newSize > w.capacity_[c]
                      THEN resizeToBigger(w, c, newSize, stick)
                      ELSE w
                w2 == ConstructRange(w1, c, currentSize, newSize, value, stick)
            IN IF w1.thrown # "none" THEN w1
               ELSE [w2 EXCEPT !.size_[c] = newSize]
       ELSE w

\* resize(size_t newSize): the same with ValueType{}
resizeDefault(w, c, newSize, stick) ==
    LET currentSize == w.size_[c]
    IN IF newSize < currentSize
       THEN [DestroyRange(w, c, newSize, currentSize) EXCEPT !.size_[c] = newSize]
       ELSE IF newSize > currentSize
       THEN LET w1 == IF newSize > w.capacity_[c]
                      THEN resizeToBigger(w, c, newSize, stick)
                      ELSE w
                w2 == ConstructRange(w1, c, currentSize, newSize, DefaultValue, stick)
            IN IF w1.thrown # "none" THEN w1
               ELSE [w2 EXCEPT !.size_[c] = newSize]
       ELSE w

\* a clear() that also gives the storage back, as the standard shrinking idiom
clearReleasing(w, c) ==
    LET w1 == DestroyRange(w, c, 0, w.size_[c])
        w2 == Deallocate(w1, w1.array_[c])
    IN [w2 EXCEPT !.size_[c] = 0, !.array_[c] = NullPtr, !.capacity_[c] = 0]

\* differs from the standard one: the capacity is kept
clear(w, c) ==
    [DestroyRange(w, c, 0, w.size_[c]) EXCEPT !.size_[c] = 0]

\* insert(Iterator position, ConstReference value); position = array_ + p
insertCopy(w, c, p, value, stick) ==
    IF p < 0 THEN Throw(w, "range_error")
    ELSE IF p > 1 THEN Throw(w, "range_error")
    ELSE uncheckedInsertCopy(w, c, p, value, stick)

\* insert(ConstIterator position, RValueReference value)
insertMove(w, c, p, value, stick) ==
    IF p < 0 THEN Throw(w, "range_error")
    ELSE IF p > w.size_[c] THEN Throw(w, "range_error")
    ELSE uncheckedInsertMove(w, c, p, value, stick)

insert(w, c, overload, p, value, stick) ==
    IF overload = "copy" THEN insertCopy(w, c, p, value, stick)
    ELSE insertMove(w, c, p, value, stick)

\* an erase() that checks the bounds before the order of from and to
eraseBoundsFirst(w, c, from, to, stick) ==
    IF from < 0 THEN Throw(w, "range_error")
    ELSE IF to < 0 THEN Throw(w, "range_error")
    ELSE IF from > w.size_[c] THEN Throw(w, "range_error")
    ELSE IF to > w.size_[c] THEN Throw(w, "range_error")
    ELSE IF from > to THEN Throw(w, "logic_error")
    ELSE uncheckedErase(w, c, from, to, stick)

\* erase(ConstIterator from, ConstIterator to)
erase(w, c, from, to, stick) ==
    IF from > to THEN Throw(w, "logic_error")
    ELSE IF from < 0 THEN Throw(w, "range_error")
    ELSE IF to < 0 THEN Throw(w, "range_error")
    ELSE IF from > w.size_[c] THEN Throw(w, "range_error")
    ELSE IF to > w.size_[c] THEN Throw(w, "range_error")
    ELSE uncheckedErase(w, c, from, to, stick)

\* erase(Iterator position)
erasePosition(w, c, position, stick) == erase(w, c, position, position + 1, stick)

\* pushBack(ConstReference) and pushBack(RValueReference)
pushBack(w, c, value, stick) ==
    LET w1 == requireExtraSlot(w, c, stick)
        address == w1.size_[c]
        w2 == [w1 EXCEPT !.size_[c] = address + 1]
    IN IF w1.thrown # "none" THEN w1
       ELSE Wr(w2, c, address, value, stick)

\* a popBack() without checkNotEmpty(): the last slot is destroyed and
\* forgotten, whatever size_ is
popBackUnchecked(w, c) ==
    LET w1 == [w EXCEPT !.size_[c] = w.size_[c] - 1]
    IN Destroy(w1, c, w1.size_[c])

\* checkNotEmpty() then Memory::destroy(allocator_, array_ + (--size_))
popBack(w, c) ==
    IF w.size_[c] = 0 THEN Throw(w, "out_of_range")
    ELSE LET w1 == [w EXCEPT !.size_[c] = w.size_[c] - 1]
         IN Destroy(w1, c, w1.size_[c])

\* ---------------------------------------------------------- state machine
NoVector == [v \in Vecs |-> 0]

EmptyWorld ==
    [live |-> [v \in Vecs |-> FALSE], array_ |-> NoVector, size_ |-> NoVector,
     capacity_ |-> NoVector, heap |-> [id \in Blocks |-> FreeBlock],
     thrown |-> "none", relocated |-> 0, oom |-> FALSE]

\* main(): collection::Vector<int> vector;
Init ==
    LET w == DefaultConstruct(EmptyWorld, "a")
    IN /\ live = w.live
       /\ array_ = w.array_
       /\ size_ = w.size_
       /\ capacity_ = w.capacity_
       /\ heap = w.heap
       /\ crashed = FALSE
       /\ pushes = 0
       /\ moved = 0

\* the state after a member function returned or threw: w.  An exception
\* leaves the members as the throwing function left them (the caller goes
\* on); a crash ends the run
ApplyMembers(w) ==
    /\ live' = w.live
    /\ array_' = w.array_
    /\ size_' = w.size_
    /\ capacity_' = w.capacity_
    /\ heap' = w.heap
    /\ crashed' = (w.thrown = "crash")

\* the same in main(); the counters of the pushBack-only run are not kept
Apply(w) == ApplyMembers(w) /\ UNCHANGED <<pushes, moved>>

\* the process is still running
Running == ~crashed

\* c is the vector of the innermost scope: "b" while it lives, else "a"; the
\* inner scope ends after an assignment has handed a block to "a"
InScope(c) ==
    /\ Running /\ live[c]
    /\ c = "a" => ~live["b"]
    /\ c = "b" => array_["a"] = NullPtr

\* where stores past the end of the block can land: while size_ < capacity_
\* no operation stores past the end, and the choice is immaterial
Sticks(c) == IF size_[c] >= capacity_[c] THEN BOOLEAN ELSE {TRUE}

\* a call that adds an element stays within the explored sizes and capacities
MayGrow(c) ==
    /\ size_[c] < MaxSize
    /\ requireExtraSlot(Cur, c, TRUE).capacity_[c] <= MaxCap

MoveConstructStep ==
    \E c \in Vecs, original \in Vecs :
        /\ ~live[c] /\ InScope(original)
        /\ Apply(MoveConstruct(Cur, c, original))

\* the end of the inner scope
DestructStep ==
    /\ Running /\ live["b"]
    /\ Apply(Destruct(Cur, "b"))

\* a = std::move(b); or b = std::move(a); in the inner scope
MoveAssignStep ==
    \E c \in Vecs, other \in Vecs :
        /\ c # other /\ live[c] /\ live[other] /\ InScope("b")
        /\ Apply(MoveAssign(Cur, c, other))

AtStep ==
    \E c \in Vecs :
        \E index \in 0..(size_[c] + 1) :
            /\ InScope(c)
            /\ Apply(at(Cur, c, index).after)

PushBackStep ==
    \E c \in Vecs :
      /\ InScope(c) /\ MayGrow(c)
      /\ \E value \in Value, stick \in Sticks(c), oom \in BOOLEAN :
            Apply(pushBack(CurMemory(oom), c, value, stick))

PopBackStep ==
    \E c \in Vecs :
        /\ InScope(c)
        /\ Apply(popBack(Cur, c))

InsertStep ==
    \E c \in Vecs :
      /\ InScope(c) /\ MayGrow(c)
      /\ \E overload \in Overloads, value \in Value, stick \in Sticks(c) :
            \E p \in -1..(size_[c] + 1), oom \in BOOLEAN :
                Apply(insert(CurMemory(oom), c, overload, p, value, stick))

EraseStep ==
    \E c \in Vecs :
      \E stick \in Sticks(c) :
        \E from \in -1..(size_[c] + 1), to \in -1..(size_[c] + 1) :
            /\ InScope(c)
            /\ Apply(erase(Cur, c, from, to, stick))

ErasePositionStep ==
    \E c \in Vecs :
      \E stick \in Sticks(c) :
        \E position \in -1..size_[c] :
            /\ InScope(c)
            /\ Apply(erasePosition(Cur, c, position, stick))

ClearStep ==
    \E c \in Vecs :
        /\ InScope(c)
        /\ Apply(clear(Cur, c))

ResizeStep ==
    \E c \in Vecs, newSize \in 0..MaxSize, value \in Value :
      \E stick \in Sticks(c), oom \in BOOLEAN :
        /\ InScope(c)
        /\ Apply(resize(CurMemory(oom), c, newSize, value, stick))

ResizeDefaultStep ==
    \E c \in Vecs, newSize \in 0..MaxSize :
      \E stick \in Sticks(c), oom \in BOOLEAN :
        /\ InScope(c)
        /\ Apply(resizeDefault(CurMemory(oom), c, newSize, stick))

ReserveStep ==
    \E c \in Vecs, newCapacity \in 0..MaxReserve :
      \E stick \in Sticks(c), oom \in BOOLEAN :
        /\ InScope(c)
        /\ Apply(reserve(CurMemory(oom), c, newCapacity, stick))

Next ==
    \/ MoveConstructStep
    \/ DestructStep
    \/ MoveAssignStep
    \/ AtStep
    \/ PushBackStep
    \/ PopBackStep
    \/ InsertStep
    \/ EraseStep
    \/ ErasePositionStep
    \/ ClearStep
    \/ ResizeStep
    \/ ResizeDefaultStep
    \/ ReserveStep

Spec == Init /\ [][Next]_vars

\* the pushBack-only run: for (i = 0; i < MaxPushes; ++i) a.pushBack(i % 2);
\* pushes counts the calls, moved the elements relocated so far
GrowthPushBackStep ==
    /\ pushes < MaxPushes
    /\ LET r == pushBack(Cur, "a", pushes % 2, TRUE)
       IN /\ ApplyMembers(r)
          /\ pushes' = pushes + 1
          /\ moved' = moved + r.relocated

GrowthNext == GrowthPushBackStep

GrowthSpec == Init /\ [][GrowthNext]_vars

TypeOK ==
    /\ live \in [Vecs -> BOOLEAN]
    /\ array_ \in [Vecs -> {NullPtr} \cup Blocks]
    /\ size_ \in [Vecs -> Nat]
    /\ capacity_ \in [Vecs -> Nat]
    /\ crashed \in BOOLEAN
    /\ pushes \in 0..MaxPushes
    /\ moved \in Nat

\* ================================================================ claims
LiveVecs == {c \in Vecs : live[c]}

\* s[from+1 .. to] of a sequence, empty when to <= from
Slice(s, from, to) == [k \in 1..(to - from) |-> s[from + k]]

\* size(), capacity(), data() and the owned block are what they were in Cur
SameFrame(r, c) ==
    /\ r.capacity_[c] = capacity_[c]
    /\ r.array_[c] = array_[c]
    /\ \A id \in Blocks : r.heap[id].alloc = heap[id].alloc /\ r.heap[id].n = heap[id].n

\* C1: in every state between two public operations 0 <= size() <= capacity()
\* holds for every constructed vector.
C1_SizeWithinCapacity ==
    \A c \in LiveVecs : 0 <= size_[c] /\ size_[c] <= capacity_[c]

\* C2: erase(from, to) with 0 <= from <= to <= size leaves s[0..from) followed
\* by s[to..size) in order, the size smaller by to - from; erase(position)
\* removes exactly the element at position.
C2_EraseRemovesRange ==
    \A c \in LiveVecs, stick \in BOOLEAN :
        LET s == Elems(Cur, c)
            n == size_[c]
        IN /\ \A from \in 0..n : \A to \in from..n :
                LET r == erase(Cur, c, from, to, stick)
                IN /\ r.thrown = "none"
                   /\ r.size_[c] = n - (to - from)
                   /\ Elems(r, c) = Slice(s, 0, from) \o Slice(s, to, n)
           /\ \A position \in 0..(n - 1) :
                LET r == erasePosition(Cur, c, position, stick)
                IN /\ r.thrown = "none"
                   /\ Elems(r, c) = Slice(s, 0, position) \o Slice(s, position + 1, n)

\* C3: insert(p, v) with 0 <= p <= size, in the copy and in the move overload,
\* reallocating or not, succeeds and leaves s[0..p) ++ [v] ++ s[p..size), the
\* size larger by exactly 1.
C3_InsertPlacesValue ==
    \A c \in LiveVecs, overload \in Overloads, value \in Value, stick \in BOOLEAN :
        LET s == Elems(Cur, c)
            n == size_[c]
        IN \A p \in 0..n :
            LET r == insert(Cur, c, overload, p, value, stick)
            IN /\ r.thrown = "none"
               /\ r.size_[c] = n + 1
               /\ Elems(r, c) = Slice(s, 0, p) \o <<value>> \o Slice(s, p, n)

\* C4: insert(i, v) followed by erase(i, i+1) restores the sequence element
\* for element, with the original size, for every 0 <= i <= size and every v.
C4_InsertEraseRoundTrip ==
    \A c \in LiveVecs, overload \in Overloads, value \in Value, stick \in BOOLEAN :
        \A i \in 0..size_[c] :
            LET r1 == insert(Cur, c, overload, i, value, stick)
                r2 == erase(r1, c, i, i + 1, stick)
            IN /\ r1.thrown = "none"
               /\ r2.thrown = "none"
               /\ r2.size_[c] = size_[c]
               /\ Elems(r2, c) = Elems(Cur, c)

\* C5: pushBack(v) yields s ++ [v] (size + 1, last element v, the elements
\* below the old size unchanged), also when it reallocates; a popBack() after
\* it leaves s again.
C5_PushBackAppends ==
    \A c \in LiveVecs, value \in Value, stick \in BOOLEAN :
        LET s == Elems(Cur, c)
            r1 == pushBack(Cur, c, value, stick)
            r2 == popBack(r1, c)
        IN /\ r1.thrown = "none"
           /\ r1.size_[c] = size_[c] + 1
           /\ Elems(r1, c) = Append(s, value)
           /\ r2.thrown = "none"
           /\ Elems(r2, c) = s

\* C6: popBack() on an empty vector throws the empty-container error and
\* changes neither size, capacity nor storage; on a non-empty vector it removes
\* exactly the last element: size - 1, the elements below it unchanged.
C6_PopBack ==
    \A c \in LiveVecs :
        LET s == Elems(Cur, c)
            r == popBack(Cur, c)
        IN IF size_[c] = 0
           THEN /\ r.thrown = "out_of_range"
                /\ r.size_[c] = 0
                /\ SameFrame(r, c)
                /\ r.heap = heap
           ELSE /\ r.thrown = "none"
                /\ r.size_[c] = size_[c] - 1
                /\ Elems(r, c) = Slice(s, 0, size_[c] - 1)

\* a vector whose one element popBack() removes and on which the next
\* popBack() throws
C6_Witness ==
    \E c \in LiveVecs :
        /\ size_[c] = 1 /\ capacity_[c] > 1 /\ Elems(Cur, c)[1] \in Value
        /\ popBack(Cur, c).thrown = "none"
        /\ popBack(Cur, c).size_[c] = 0
        /\ popBack(popBack(Cur, c), c).thrown = "out_of_range"

\* what resize(n [, fill]) must leave, from size s0 and capacity c0
ResizePost(r, c, n, fill) ==
    LET s == Elems(Cur, c)
        s0 == size_[c]
        c0 == capacity_[c]
    IN /\ r.thrown = "none"
       /\ r.size_[c] = n
       /\ \A k \in 1..Min(n, s0) : Elems(r, c)[k] = s[k]
       /\ \A k \in (s0 + 1)..n : Elems(r, c)[k] = fill
       /\ r.capacity_[c] = (IF n > c0 THEN n ELSE c0)

\* C7: after resize(n) / resize(n, fill): size = n, the elements below
\* min(n, s0) unchanged, the elements in [s0, n) equal to fill (the default
\* value for the one-argument form), capacity n when n > c0 and c0 otherwise.
C7_ResizePost ==
    \A c \in LiveVecs, n \in 0..(MaxSize + 1), stick \in BOOLEAN :
        /\ ResizePost(resizeDefault(Cur, c, n, stick), c, n, DefaultValue)
        /\ \A fill \in Value : ResizePost(resize(Cur, c, n, fill, stick), c, n, fill)

\* C8: clear(), popBack(), erase(from, to) and resize(k) with k < size leave
\* capacity() and the backing block as they were; clear() leaves size 0.
C8_ShrinkKeepsBlock ==
    \A c \in LiveVecs, stick \in BOOLEAN :
        /\ SameFrame(clear(Cur, c), c) /\ clear(Cur, c).size_[c] = 0
        /\ SameFrame(popBack(Cur, c), c)
        /\ \A from \in -1..(size_[c] + 1), to \in -1..(size_[c] + 1) :
                SameFrame(erase(Cur, c, from, to, stick), c)
        /\ \A position \in -1..size_[c] :
                SameFrame(erasePosition(Cur, c, position, stick), c)
        /\ \A k \in 0..(size_[c] - 1) :
                /\ SameFrame(resizeDefault(Cur, c, k, stick), c)
                /\ \A fill \in Value : SameFrame(resize(Cur, c, k, fill, stick), c)

\* a vector of three elements that clear(), popBack(), erase(1, 3) and
\* resize(1) shrink in its block
C8_Witness ==
    \E c \in LiveVecs :
        /\ size_[c] = 3 /\ capacity_[c] >= 3 /\ array_[c] # NullPtr
        /\ clear(Cur, c).size_[c] = 0
        /\ popBack(Cur, c).size_[c] = 2
        /\ erase(Cur, c, 1, 3, TRUE).size_[c] = 1
        /\ resizeDefault(Cur, c, 1, TRUE).size_[c] = 1
        /\ resizeDefault(Cur, c, 1, TRUE).array_[c] = array_[c]

\* C9: reserve(n): capacity n if n > c0, nothing changed if n <= c0; size and
\* the element sequence as before in both cases.
C9_Reserve ==
    \A c \in LiveVecs, n \in 0..(MaxReserve + 1), stick \in BOOLEAN :
        LET r == reserve(Cur, c, n, stick)
        IN /\ r.thrown = "none"
           /\ r.size_[c] = size_[c]
           /\ Elems(r, c) = Elems(Cur, c)
           /\ IF n > capacity_[c]
              THEN r.capacity_[c] = n
              ELSE r = Cur

\* C10: move construction of b from a: a is left with size 0, capacity 0 and
\* no block; b has a's former size, capacity, block and elements; no slot of
\* any block is touched.
C10_MoveConstruct ==
    \A original \in LiveVecs, c \in Vecs \ LiveVecs :
        LET r == MoveConstruct(Cur, c, original)
        IN /\ r.thrown = "none"
           /\ r.live[c] /\ r.live[original]
           /\ r.size_[original] = 0
           /\ r.capacity_[original] = 0
           /\ r.array_[original] = NullPtr
           /\ r.size_[c] = size_[original]
           /\ r.capacity_[c] = capacity_[original]
           /\ r.array_[c] = array_[original]
           /\ Elems(r, c) = Elems(Cur, original)
           /\ r.heap = heap

\* b has been move-constructed from a, which held elements and has not been
\* used since
C10_Witness ==
    /\ live["a"] /\ live["b"]
    /\ size_["b"] > 0 /\ array_["b"] # NullPtr /\ capacity_["b"] >= size_["b"]
    /\ size_["a"] = 0 /\ capacity_["a"] = 0 /\ array_["a"] = NullPtr

\* C11: move assignment c = std::move(other) between distinct vectors: c
\* holds other's former size, capacity and elements, and other is left with
\* size 0 and capacity 0.
C11_MoveAssign ==
    \A c \in LiveVecs, other \in LiveVecs :
        c # other =>
            LET r == MoveAssign(Cur, c, other)
            IN /\ r.thrown = "none"
               /\ r.size_[c] = size_[other]
               /\ r.capacity_[c] = capacity_[other]
               /\ Elems(r, c) = Elems(Cur, other)
               /\ r.size_[other] = 0
               /\ r.capacity_[other] = 0

\* the worlds one mutating operation on c can leave from w
Mutations(w, c) ==
    {pushBack(w, c, value, stick) : value \in Value, stick \in BOOLEAN}
    \cup {popBack(w, c), clear(w, c)}
    \cup {insert(w, c, overload, p, value, TRUE) :
              overload \in Overloads, p \in 0..w.size_[c], value \in Value}
    \cup {erase(w, c, from, to, TRUE) : from \in 0..w.size_[c], to \in 0..w.size_[c]}
    \cup {resize(w, c, n, value, TRUE) : n \in 0..MaxSize, value \in Value}
    \cup {reserve(w, c, n, TRUE) : n \in 0..MaxReserve}

\* size, capacity and elements of c are in r2 what they are in r
Untouched(r2, r, c) ==
    /\ r2.size_[c] = r.size_[c]
    /\ r2.capacity_[c] = r.capacity_[c]
    /\ Elems(r2, c) = Elems(r, c)

\* C12: copy construction of c from original gives c the size and elements of
\* original in a block of its own; a mutating operation on either of the two
\* then leaves size, capacity and elements of the other unchanged.
C12_CopyIndependence ==
    \A original \in LiveVecs, c \in Vecs \ LiveVecs :
        LET r == CopyConstruct(Cur, c, original)
        IN /\ r.thrown = "none"
           /\ r.live[c]
           /\ r.size_[c] = size_[original]
           /\ Elems(r, c) = Elems(Cur, original)
           /\ r.array_[c] # NullPtr /\ r.array_[c] # r.array_[original]
           /\ Untouched(r, Cur, original)
           /\ \A r2 \in Mutations(r, c) : Untouched(r2, r, original)
           /\ \A r2 \in Mutations(r, original) : Untouched(r2, r, c)

\* C13: at(i) throws the out-of-range error exactly when i >= size, else it
\* returns the element at index i; size, capacity and the stored elements are
\* unchanged in both cases.
C13_At ==
    \A c \in LiveVecs :
        \A index \in 0..(size_[c] + 2) :
            LET r == at(Cur, c, index)
            IN /\ (r.after.thrown = "out_of_range") <=> (index >= size_[c])
               /\ index < size_[c] =>
                    /\ r.after.thrown = "none"
                    /\ r.result = Elems(Cur, c)[index + 1]
               /\ SameFrame(r.after, c)
               /\ r.after.size_ = size_
               /\ r.after.heap = heap

\* a vector of two elements: at(1) returns the second, at(2) throws
C13_Witness ==
    \E c \in LiveVecs :
        /\ size_[c] = 2 /\ capacity_[c] >= 2
        /\ Elems(Cur, c) = <<0, 1>>
        /\ at(Cur, c, 1).after.thrown = "none" /\ at(Cur, c, 1).result = 1
        /\ at(Cur, c, 2).after.thrown = "out_of_range"

\* the members and every slot of every block are in r what they are in Cur
Unchanged(r) ==
    /\ r.live = live
    /\ r.array_ = array_
    /\ r.size_ = size_
    /\ r.capacity_ = capacity_
    /\ r.heap = heap

\* C14: insert(p, v), copy or move overload, with p before the first slot or
\* p > size throws the out-of-range error and leaves size, capacity, block
\* and elements untouched.
C14_InsertRejects ==
    \A c \in LiveVecs, overload \in Overloads, value \in Value, stick \in BOOLEAN :
        \A p \in {-2, -1, size_[c] + 1, size_[c] + 2} :
            LET r == insert(Cur, c, overload, p, value, stick)
            IN /\ r.thrown = "range_error"
               /\ Unchanged(r)

\* C15: erase(from, to) throws the logic error whenever from > to, the
\* out-of-range error when from <= to and to > size (so erase(position) with
\* position = size throws it), and a failing erase changes nothing.
C15_EraseRejects ==
    \A c \in LiveVecs, stick \in BOOLEAN :
        /\ \A from \in -1..(size_[c] + 2), to \in -1..(size_[c] + 2) :
              LET r == erase(Cur, c, from, to, stick)
              IN /\ from > to => r.thrown = "logic_error"
                 /\ (from <= to /\ to > size_[c]) => r.thrown = "range_error"
                 /\ r.thrown # "none" => Unchanged(r)
        /\ LET r == erasePosition(Cur, c, size_[c], stick)
           IN r.thrown = "range_error" /\ Unchanged(r)

\* a vector of two elements on which erase(3, 1) throws the logic error and
\* erase(1, 3) and erase(position 2) the out-of-range error
C15_Witness ==
    \E c \in LiveVecs :
        /\ size_[c] = 2 /\ capacity_[c] >= 2 /\ array_[c] # NullPtr
        /\ erase(Cur, c, 3, 1, TRUE).thrown = "logic_error"
        /\ erase(Cur, c, 1, 3, TRUE).thrown = "range_error"
        /\ erasePosition(Cur, c, 2, TRUE).thrown = "range_error"
        /\ erase(Cur, c, 1, 2, TRUE).thrown = "none"

\* C16: in the pushBack-only run from a default-constructed vector, after N
\* calls the reallocations have relocated at most 3 * N elements in total.
C16_GrowthAmortized == moved <= 3 * pushes

\* 81 calls in, the block has been replaced at sizes 0, 23, 35, 53 and 80
C16_Witness ==
    /\ pushes = 81 /\ size_["a"] = 81
    /\ capacity_["a"] = 121
    /\ moved = 23 + 35 + 53 + 80

\* C17: after each public operation exactly the slots [0, size) of the owned
\* block are constructed and the slots [size, capacity) are raw, and nothing
\* outside the block has been accessed.
C17_SlotsTracked ==
    /\ ~crashed
    /\ \A c \in LiveVecs :
        IF array_[c] = NullPtr
        THEN size_[c] = 0 /\ capacity_[c] = 0
        ELSE LET blk == heap[array_[c]]
             IN /\ blk.alloc
                /\ capacity_[c] = blk.n
                /\ size_[c] <= capacity_[c]
                /\ Len(blk.slots) = blk.n
                /\ \A i \in 1..blk.n :
                      IF i <= size_[c] THEN blk.slots[i] # RAW
                      ELSE blk.slots[i] = RAW

\* what the growth policy makes of a call that adds one element: r
GrowthPolicy(r, c) ==
    IF size_[c] = capacity_[c]
    THEN r.capacity_[c] =
            (IF capacity_[c] < 2 THEN 2 ELSE capacity_[c] + (capacity_[c] \div 2))
    ELSE r.capacity_[c] = capacity_[c] /\ r.array_[c] = array_[c]

\* C18: pushBack and insert change the capacity iff size = capacity before the
\* call, then to 2 if the capacity was < 2 and to capacity + capacity / 2
\* otherwise; with size < capacity the capacity and the block stay.
C18_GrowthPolicy ==
    \A c \in LiveVecs, value \in Value, stick \in BOOLEAN :
        /\ GrowthPolicy(pushBack(Cur, c, value, stick), c)
        /\ \A overload \in Overloads, p \in 0..size_[c] :
              GrowthPolicy(insert(Cur, c, overload, p, value, stick), c)

\* r0 is what a call on c leaves when the allocator serves it, r what it
\* leaves when the allocator fails: if the call allocates, the failure
\* reaches the caller, and then nothing has changed
FailsClean(r0, r, c) ==
    /\ r0.array_[c] # array_[c] => r.thrown = "bad_alloc"
    /\ r.thrown = "bad_alloc" => Unchanged(r)
    /\ r0.array_[c] = array_[c] => r.heap = r0.heap /\ r.size_ = r0.size_

\* C19: a failing allocation inside reserve, growing resize, pushBack or insert
\* propagates to the caller and leaves size, capacity, block and elements
\* exactly as before the call.
C19_AllocationFailure ==
    \A c \in LiveVecs :
      \A stick \in Sticks(c) :
        /\ \A n \in (capacity_[c] - 1)..(capacity_[c] + 2) :
              FailsClean(reserve(Cur, c, n, stick),
                         reserve(CurMemory(TRUE), c, n, stick), c)
        /\ \A n \in {size_[c] + 1} \cup capacity_[c]..(capacity_[c] + 2),
              value \in Value :
              /\ FailsClean(resize(Cur, c, n, value, stick),
                            resize(CurMemory(TRUE), c, n, value, stick), c)
              /\ FailsClean(resizeDefault(Cur, c, n, stick),
                            resizeDefault(CurMemory(TRUE), c, n, stick), c)
        /\ \A value \in Value :
              /\ FailsClean(pushBack(Cur, c, value, stick),
                            pushBack(CurMemory(TRUE), c, value, stick), c)
              /\ \A overload \in Overloads, p \in 0..size_[c] :
                    FailsClean(insert(Cur, c, overload, p, value, stick),
                               insert(CurMemory(TRUE), c, overload, p, value, stick), c)

\* a vector of two elements in a block of three slots, on which pushBack,
\* insert, reserve(4) and resize(4) reallocate and fail when the allocator
\* does
C19_Witness ==
    \E c \in LiveVecs :
        /\ size_[c] = 2 /\ capacity_[c] = 3 /\ Elems(Cur, c) \in [1..2 -> Value]
        /\ pushBack(Cur, c, 1, TRUE).capacity_[c] = 4
        /\ pushBack(CurMemory(TRUE), c, 1, TRUE).thrown = "bad_alloc"
        /\ insert(CurMemory(TRUE), c, "move", 0, 1, TRUE).thrown = "bad_alloc"
        /\ reserve(CurMemory(TRUE), c, 4, TRUE).thrown = "bad_alloc"
        /\ resize(CurMemory(TRUE), c, 4, 1, TRUE).thrown = "bad_alloc"
        /\ pushBack(CurMemory(TRUE), c, 1, TRUE).heap = heap

\* C20: erase(p, p) with 0 <= p <= size is a no-op: size, capacity and every
\* element are after the call what they were before it.
C20_EraseEmptyRange ==
    \A c \in LiveVecs, stick \in BOOLEAN :
        \A p \in 0..size_[c] :
            LET r == erase(Cur, c, p, p, stick)
            IN /\ r.thrown = "none"
               /\ r.size_[c] = size_[c]
               /\ r.capacity_[c] = capacity_[c]
               /\ Elems(r, c) = Elems(Cur, c)

\* the blocks that are allocated in r
Allocated(r) == {id \in Blocks : r.heap[id].alloc}

\* C21: after copy assignment c = other between distinct vectors: c has
\* other's size and elements index by index, capacity() of c is the number of
\* slots of the block c owns, the block c had is reused or released, and
\* other is unchanged.
C21_CopyAssign ==
    \A c \in LiveVecs, other \in LiveVecs, stick \in BOOLEAN :
        c # other =>
            LET r == CopyAssign(Cur, c, other, stick)
            IN /\ r.thrown = "none"
               /\ r.size_[c] = size_[other]
               /\ Elems(r, c) = Elems(Cur, other)
               /\ r.array_[c] # NullPtr =>
                     /\ r.heap[r.array_[c]].alloc
                     /\ r.capacity_[c] = r.heap[r.array_[c]].n
               /\ r.array_[c] # r.array_[other]
               /\ array_[c] # NullPtr =>
                     (r.array_[c] = array_[c] \/ ~r.heap[array_[c]].alloc)
               /\ Allocated(r) \subseteq
                     {r.array_[v] : v \in {v \in Vecs : r.live[v]}}
               /\ Untouched(r, Cur, other)
               /\ r.array_[other] = array_[other]

====
